---- MODULE Spec2Model ----
(***************************************************************************)
(* Route53DNSProvider (custom-domain/dstack-ingress/scripts/dns_providers/ *)
(* route53.py): hosted-zone resolution with the per-instance cache, record *)
(* listing, record creation with weighted-routing injection, record        *)
(* deletion by synthetic id, and the apex CAA merge. Spec runs the methods *)
(* one after another; SpecZones resolves zones on every zone listing,      *)
(* SpecRecords writes and reads records of every routing data, SpecNames   *)
(* normalizes names, SpecCaaRace runs two CAA merges statement by          *)
(* statement, side by side.                                                *)
(*                                                                         *)
(* Python strings are TLA+ strings (TLC evaluates Len, \o and SubSeq on    *)
(* them). An optional value (None, or a dict key that may be absent) is a  *)
(* sequence of length 0 or 1.                                              *)
(***************************************************************************)
EXTENDS Integers, Sequences, FiniteSets, TLC

VARIABLES
    zones,            \* the backend's hosted zones, in listing order
    rrsets,           \* the backend's record sets: zone id -> listing
    hosted_zone_id,   \* self.hosted_zone_id
    hosted_zone_name, \* self.hosted_zone_name
    last,             \* the invocation that just returned: inputs, backend
                      \* calls, outcome; op "idle" between invocations
    calls             \* create_caa_record invocations running side by side:
                      \* thread -> its position and local variables

vars == <<zones, rrsets, hosted_zone_id, hosted_zone_name, last, calls>>

------------------------------------------------------------------------------
(* Bounds of the model *)

\* Items per page of a paginated listing.
PageSize == 1
\* Most record sets the backend holds, all zones together.
MaxRecordSets == 1

\* The longest name _normalize_record_name is applied to on its own.
MaxNameLen == 6

------------------------------------------------------------------------------
(* Optional values and Python truthiness *)

None == <<>>
Some(x) == <<x>>
Val(o) == o[1]

\* `if x:` for an optional string: neither None nor "".
Truthy(o) == o # None /\ Val(o) # ""

Last(s) == s[Len(s)]

------------------------------------------------------------------------------
(* str methods *)

CharAt(s, i) == SubSeq(s, i, i)

\* s.endswith(suffix)
EndsWith(s, suffix) ==
    /\ Len(s) >= Len(suffix)
    /\ SubSeq(s, Len(s) - Len(suffix) + 1, Len(s)) = suffix

\* s.rstrip(ch): every trailing ch goes
RECURSIVE RStrip(_, _)
RStrip(s, ch) ==
    IF Len(s) > 0 /\ CharAt(s, Len(s)) = ch
    THEN RStrip(SubSeq(s, 1, Len(s) - 1), ch)
    ELSE s

\* s.split(sep), sep one character
RECURSIVE Split(_, _)
Split(s, sep) ==
    LET hits == {i \in 1..Len(s) : CharAt(s, i) = sep}
    IN  IF hits = {} THEN <<s>>
        ELSE LET i == CHOOSE k \in hits : \A j \in hits : k <= j
             IN  <<SubSeq(s, 1, i - 1)>> \o Split(SubSeq(s, i + 1, Len(s)), sep)

------------------------------------------------------------------------------
(* The backend's paginated listings *)

\* The page (1..) that holds item i of a listing.
PageOf(i) == ((i - 1) \div PageSize) + 1

\* A listing always has a first page, also when it is empty.
NumPages(n) == IF n = 0 THEN 1 ELSE PageOf(n)

\* Item i is the first of its page: the paginator fetches that page just before.
IsPageStart(i) == (i - 1) % PageSize = 0

------------------------------------------------------------------------------
(* Zone resolution *)

\* SubdomainMatch without the comparison of lengths: the last zone listed that
\* the domain is a subdomain of wins.
SubdomainMatchAnyLength(domain, zone_name, best_match_length) ==
    EndsWith(domain, "." \o zone_name)

\* "Subdomain match - find the most specific (longest) zone"
SubdomainMatch(domain, zone_name, best_match_length) ==
    /\ EndsWith(domain, "." \o zone_name)
    /\ Len(zone_name) > best_match_length

\* The loop of _get_hosted_zone_info from zone i on. failAt is the page whose
\* fetch raises (0: none). The outcome is [raised, value]: raised when the
\* paginator raised, else value is what the try block returns.
RECURSIVE ScanHostedZones(_, _, _, _, _)
ScanHostedZones(listing, domain, failAt, i, best) ==
    IF i > Len(listing)
    THEN IF Len(listing) = 0 /\ failAt = 1
         THEN [raised |-> TRUE, value |-> None]
         ELSE [raised |-> FALSE,
               value |-> IF Truthy(best.id)
                         THEN Some(<<Val(best.id), Val(best.name)>>)
                         ELSE None]
    ELSE IF IsPageStart(i) /\ PageOf(i) = failAt
    THEN [raised |-> TRUE, value |-> None]
    ELSE LET zone_name == RStrip(listing[i].Name, ".")
             zone_id == Last(Split(listing[i].Id, "/"))
         IN  IF domain = zone_name
             THEN [raised |-> FALSE, value |-> Some(<<zone_id, zone_name>>)]
             ELSE IF SubdomainMatch(domain, zone_name, best.length)
             THEN ScanHostedZones(listing, domain, failAt, i + 1,
                      [length |-> Len(zone_name), id |-> Some(zone_id),
                       name |-> Some(zone_name)])
             ELSE ScanHostedZones(listing, domain, failAt, i + 1, best)

\* The except clause of _get_hosted_zone_info: a failed listing is no zone, and
\* nothing is raised to the caller. failed: the backend call raised.
HostedZoneExcept(scan) ==
    [raised |-> FALSE,
     value |-> IF scan.raised THEN None ELSE scan.value,
     failed |-> scan.raised]

\* _get_hosted_zone_info(domain): [raised, value, failed], value None or
\* Some(<<id, name>>).
get_hosted_zone_info(listing, domain, failAt) ==
    HostedZoneExcept(
        ScanHostedZones(listing, domain, failAt, 1,
                        [length |-> 0, id |-> None, name |-> None]))

\* CacheCovers for the cached zone's own name only, not for its subdomains.
CacheCoversSameDomain(id, name, domain) ==
    /\ Truthy(id)
    /\ Truthy(name)
    /\ domain = Val(name)

\* The cached zone covers the domain.
CacheCovers(id, name, domain) ==
    /\ Truthy(id)
    /\ Truthy(name)
    /\ \/ domain = Val(name)
       \/ EndsWith(domain, "." \o Val(name))

\* What _ensure_hosted_zone_id returns once zone_info is known.
EnsureReturn(id, zone_info) ==
    IF zone_info # None THEN Some(Val(zone_info)[1]) ELSE id

\* _ensure_hosted_zone_id(domain) on the cache <<id, name>>: the value returned,
\* the cache afterwards, and whether the hosted zones were listed.
ensure_hosted_zone_id(id, name, listing, domain, failAt) ==
    IF CacheCovers(id, name, domain)
    THEN [ret |-> id, id |-> id, name |-> name, listed |-> FALSE,
          zone_info |-> None, raised |-> FALSE, failed |-> FALSE]
    ELSE LET info == get_hosted_zone_info(listing, domain, failAt)
             zone_info == info.value
         IN  [ret |-> IF info.raised THEN None ELSE EnsureReturn(id, zone_info),
              id |-> IF zone_info # None THEN Some(Val(zone_info)[1]) ELSE id,
              name |-> IF zone_info # None THEN Some(Val(zone_info)[2]) ELSE name,
              listed |-> TRUE,
              zone_info |-> zone_info,
              raised |-> info.raised,
              failed |-> info.failed]

\* normalize_record_name without the test for the dot: it is always added.
NormalizeAlwaysDot(name) == name \o "."

\* _normalize_record_name(name)
normalize_record_name(name) ==
    IF ~EndsWith(name, ".") THEN name \o "." ELSE name

------------------------------------------------------------------------------
(* int <-> str *)

Digits == <<"0", "1", "2", "3", "4", "5", "6", "7", "8", "9">>

\* s.isdigit(): not empty, decimal digits only
IsDigit(s) ==
    /\ Len(s) > 0
    /\ \A i \in 1..Len(s) : \E d \in 1..Len(Digits) : CharAt(s, i) = Digits[d]

DigitValue(c) == (CHOOSE d \in 1..Len(Digits) : Digits[d] = c) - 1

\* int(s) of a string of digits
RECURSIVE StrToInt(_)
StrToInt(s) ==
    IF Len(s) = 0 THEN 0
    ELSE StrToInt(SubSeq(s, 1, Len(s) - 1)) * 10 + DigitValue(CharAt(s, Len(s)))

\* str(n), n >= 0
RECURSIVE IntToStr(_)
IntToStr(n) ==
    IF n < 10 THEN Digits[n + 1]
    ELSE IntToStr(n \div 10) \o Digits[(n % 10) + 1]

------------------------------------------------------------------------------
(* The backend: record sets and change requests *)

\* A record set as list_resource_record_sets returns it. TTL, ResourceRecords,
\* Weight and SetIdentifier are keys the dict may lack.
RecordSet(name, type, ttl, values, weight, sid) ==
    [Name |-> name, Type |-> type, TTL |-> ttl, ResourceRecords |-> values,
     Weight |-> weight, SetIdentifier |-> sid]

\* The backend's identity of a record set.
Identity(rs) == <<rs.Name, rs.Type, rs.SetIdentifier>>

\* The first of the positions `hits` of a listing (0: there is none).
FirstIndex(hits) ==
    IF hits = {} THEN 0 ELSE CHOOSE k \in hits : \A j \in hits : k <= j

\* The search loops of delete_dns_record and create_caa_record: pages are
\* fetched until the first match, then the loop breaks. failAt is the page whose
\* fetch raises (0: none), hits the positions of the record sets that match.
\* [raised, value]: value the first match, if any.
FindRecordSet(listing, failAt, hits) ==
    LET first == FirstIndex(hits)
        lastPage == IF first = 0 THEN NumPages(Len(listing)) ELSE PageOf(first)
    IN  IF failAt >= 1 /\ failAt <= lastPage
        THEN [raised |-> TRUE, value |-> None]
        ELSE [raised |-> FALSE,
              value |-> IF first = 0 THEN None ELSE Some(listing[first])]

RemoveAt(s, i) == SubSeq(s, 1, i - 1) \o SubSeq(s, i + 1, Len(s))

\* The listing of a zone after the backend applied a change: UPSERT replaces
\* the record set of the same identity or adds one; DELETE removes the record
\* set submitted.
ApplyChange(listing, change) ==
    LET rs == change.ResourceRecordSet
        i == FirstIndex({k \in 1..Len(listing) :
                            Identity(listing[k]) = Identity(rs)})
        j == FirstIndex({k \in 1..Len(listing) : listing[k] = rs})
    IN  IF change.Action = "UPSERT"
        THEN IF i = 0 THEN Append(listing, rs) ELSE [listing EXCEPT ![i] = rs]
        ELSE IF j = 0 THEN listing ELSE RemoveAt(listing, j)

\* The statuses the call checks for.
AcceptedStatuses == {"PENDING", "INSYNC"}

\* `change_info.get("Status") in ["PENDING", "INSYNC"]`
StatusAccepted(status) == status # None /\ Val(status) \in AcceptedStatuses

\* What change_resource_record_sets can answer: it raises, or returns a
\* ChangeInfo with some status or with none.
Responses ==
    {[raised |-> TRUE, status |-> None]}
    \cup {[raised |-> FALSE, status |-> s] :
            s \in {None, Some("PENDING"), Some("INSYNC"), Some("FAILED")}}

\* The backend takes a change it answers with an accepted status, and no other.
Applied(resp) == ~resp.raised /\ StatusAccepted(resp.status)

\* The record sets of the backend once it took the change.
Changed(rr, change) ==
    [rr EXCEPT ![change.HostedZoneId] = ApplyChange(rr[change.HostedZoneId], change)]

RECURSIVE SumLen(_, _)
SumLen(rr, ids) ==
    IF ids = {} THEN 0
    ELSE LET z == CHOOSE x \in ids : TRUE
         IN  Len(rr[z]) + SumLen(rr, ids \ {z})

\* The record sets the backend holds.
Size(rr) == SumLen(rr, DOMAIN rr)

\* The backend refuses (raises on) a change that would take it over its limit
\* of record sets.
WithinLimit(rr, change, resp) ==
    Size(Changed(rr, change)) > MaxRecordSets => resp.raised

\* The record sets of the backend after the call.
Submit(rr, change, resp) ==
    IF Applied(resp) THEN Changed(rr, change) ELSE rr

\* SubmitResult that takes every answer that is not a raise for a success.
SubmitResultAnyStatus(resp) ==
    [escaped |-> FALSE, result |-> ~resp.raised]

\* The tail of the three writers: submit, then judge the answer. The except
\* clause turns a raise into False.
SubmitResult(resp) ==
    [escaped |-> FALSE,
     result |-> IF resp.raised THEN FALSE ELSE StatusAccepted(resp.status)]

------------------------------------------------------------------------------
(* The outcome of one invocation *)

\* ens: what _ensure_hosted_zone_id did (zones_failed: its listing of the
\* hosted zones raised). rr_listed: list_resource_record_sets
\* was called. change: the change request submitted, if any. resp: the
\* backend's answer to it. failed: some backend call raised. escaped: an
\* exception left the method. result: the bool returned (get_dns_records:
\* the list is not empty), records: the list get_dns_records returned.
Outcome(ens, rr_listed, change, resp, failed, escaped, result, records) ==
    [zones_listed |-> ens.listed, zones_failed |-> ens.failed,
     zone_info |-> ens.zone_info,
     zone_id |-> ens.ret, rr_listed |-> rr_listed, change |-> change,
     resp |-> resp, failed |-> ens.failed \/ failed,
     escaped |-> ens.raised \/ escaped,
     result |-> result, records |-> records]

\* `if not hosted_zone_id: return False` (get_dns_records: return [])
NoZone(ens) == Outcome(ens, FALSE, None, None, FALSE, FALSE, FALSE, <<>>)

\* A writer that got as far as change_resource_record_sets.
Submitted(ens, rr_listed, change, resp) ==
    LET r == SubmitResult(resp)
    IN  Outcome(ens, rr_listed, Some(change), Some(resp), resp.raised,
                r.escaped, r.result, <<>>)

Change(zone_id, action, rs) ==
    [HostedZoneId |-> zone_id, Action |-> action, ResourceRecordSet |-> rs]

------------------------------------------------------------------------------
(* create_dns_record *)

\* A DNSRecord as a caller passes it; data holds the keys weight and
\* set_identifier, each of which may be absent.
DNSRecordIn(name, type, content, ttl, weight, sid) ==
    [name |-> name, type |-> type, content |-> content, ttl |-> ttl,
     data |-> [weight |-> weight, set_identifier |-> sid]]

\* "Prepare record value": TXT content goes in double quotes.
RecordValue(record) ==
    IF record.type = "TXT" THEN "\"" \o record.content \o "\"" ELSE record.content

\* WeightToSet without the exclusion of TXT records.
WeightToSetAnyType(record, env) ==
    IF record.data.weight # None
    THEN record.data.weight
    ELSE IF env # None /\ IsDigit(Val(env))
    THEN Some(StrToInt(Val(env)))
    ELSE None

\* WeightToSet that asks the environment first: the default wins over data.
WeightToSetEnvFirst(record, env) ==
    IF record.type # "TXT" /\ env # None /\ IsDigit(Val(env))
    THEN Some(StrToInt(Val(env)))
    ELSE record.data.weight

\* "1. Determine Weight"
WeightToSet(record, env) ==
    IF record.data.weight # None
    THEN record.data.weight
    ELSE IF record.type # "TXT" /\ env # None /\ IsDigit(Val(env))
    THEN Some(StrToInt(Val(env)))
    ELSE None

\* "2. Determine Identifier", now = int(time.time())
SetIdentifierFor(record, weight_to_set, now) ==
    IF weight_to_set # None
    THEN IF record.data.set_identifier # None
         THEN record.data.set_identifier
         ELSE Some("auto-" \o IntToStr(now))
    ELSE None

\* BuildRecordSet that attaches the weight whenever one was determined, and the
\* set identifier when there is one.
BuildRecordSetWeightAlone(record, env, now) ==
    LET weight_to_set == WeightToSet(record, env)
        set_identifier == SetIdentifierFor(record, weight_to_set, now)
    IN  RecordSet(normalize_record_name(record.name), record.type,
                  Some(record.ttl), Some(<<RecordValue(record)>>),
                  weight_to_set,
                  IF Truthy(set_identifier) THEN set_identifier ELSE None)

\* "Build Resource Record Set" and "3. Apply to Record Set"
BuildRecordSet(record, env, now) ==
    LET weight_to_set == WeightToSet(record, env)
        set_identifier == SetIdentifierFor(record, weight_to_set, now)
        attach == weight_to_set # None /\ Truthy(set_identifier)
    IN  RecordSet(normalize_record_name(record.name), record.type,
                  Some(record.ttl), Some(<<RecordValue(record)>>),
                  IF attach THEN weight_to_set ELSE None,
                  IF attach THEN set_identifier ELSE None)

create_dns_record(id, name, listing, record, env, now, zfail, resp) ==
    LET ens == ensure_hosted_zone_id(id, name, listing, record.name, zfail)
    IN  IF ~Truthy(ens.ret) THEN NoZone(ens)
        ELSE Submitted(ens, FALSE,
                 Change(Val(ens.ret), "UPSERT", BuildRecordSet(record, env, now)),
                 resp)

------------------------------------------------------------------------------
(* delete_dns_record *)

\* ParseRecordId that reads the first three fields of a longer id.
ParseRecordIdFirstFields(record_id) ==
    LET parts == Split(record_id, ":")
    IN  IF Len(parts) = 2
        THEN Some([name |-> parts[1], type |-> parts[2], set_identifier |-> None])
        ELSE IF Len(parts) >= 3
        THEN Some([name |-> parts[1], type |-> parts[2],
                   set_identifier |-> Some(parts[3])])
        ELSE None

\* "Parse record_id": None when the id has neither 2 nor 3 fields.
ParseRecordId(record_id) ==
    LET parts == Split(record_id, ":")
    IN  IF Len(parts) = 2
        THEN Some([name |-> parts[1], type |-> parts[2], set_identifier |-> None])
        ELSE IF Len(parts) = 3
        THEN Some([name |-> parts[1], type |-> parts[2],
                   set_identifier |-> Some(parts[3])])
        ELSE None

\* DeleteMatch without the comparison of types.
DeleteMatchAnyType(record_set, parsed) ==
    /\ record_set.Name = parsed.name
    /\ Truthy(parsed.set_identifier)
           => record_set.SetIdentifier = parsed.set_identifier

\* name_match and type_match and id_match
DeleteMatch(record_set, parsed) ==
    /\ record_set.Name = parsed.name
    /\ record_set.Type = parsed.type
    /\ Truthy(parsed.set_identifier)
           => record_set.SetIdentifier = parsed.set_identifier

delete_dns_record(id, name, listing, rr, record_id, domain, zfail, rfail, resp) ==
    LET ens == ensure_hosted_zone_id(id, name, listing, domain, zfail)
        parsed == ParseRecordId(record_id)
        all == rr[Val(ens.ret)]
        found == FindRecordSet(all, rfail,
                     {k \in 1..Len(all) : DeleteMatch(all[k], Val(parsed))})
    IN  IF ~Truthy(ens.ret) THEN NoZone(ens)
        ELSE IF parsed = None
        THEN Outcome(ens, FALSE, None, None, FALSE, FALSE, FALSE, <<>>)
        ELSE IF found.raised
        THEN Outcome(ens, TRUE, None, None, TRUE, FALSE, FALSE, <<>>)
        ELSE IF found.value = None
        THEN Outcome(ens, TRUE, None, None, FALSE, FALSE, FALSE, <<>>)
        ELSE Submitted(ens, TRUE,
                 Change(Val(ens.ret), "DELETE", Val(found.value)), resp)

------------------------------------------------------------------------------
(* create_caa_record *)

\* required_issuers with no entry in it.
NoRequiredIssuers == <<>>

required_issuers ==
    <<"letsencrypt.org", "amazon.com", "amazontrust.com", "awstrust.com",
      "amazonaws.com">>

\* f'{caa_record.flags} {caa_record.tag} "{issuer}"'
CaaValue(flags, tag, issuer) ==
    IntToStr(flags) \o " " \o tag \o " \"" \o issuer \o "\""

required_values(caa_record) ==
    [k \in 1..Len(required_issuers) |->
        CaaValue(caa_record.flags, caa_record.tag, required_issuers[k])]

InSeq(x, s) == \E k \in 1..Len(s) : s[k] = x

\* MergeValues without the membership test: every required value is appended.
MergeValuesAppendAll(merged, required, k) ==
    merged \o SubSeq(required, k, Len(required))

\* "Merge: keep all existing values, add any missing required issuer values"
RECURSIVE MergeValues(_, _, _)
MergeValues(merged, required, k) ==
    IF k > Len(required) THEN merged
    ELSE MergeValues(IF ~InSeq(required[k], merged)
                     THEN Append(merged, required[k]) ELSE merged,
                     required, k + 1)

\* MergedRecordSet that forgets the set found: the required values alone, under
\* the caller's TTL.
MergedRecordSetRequiredOnly(caa_record, normalized_name, existing) ==
    RecordSet(normalized_name, "CAA", Some(caa_record.ttl),
              Some(required_values(caa_record)), None, None)

\* The record set of the UPSERT: existing is the apex CAA set found, if any.
MergedRecordSet(caa_record, normalized_name, existing) ==
    LET existing_values ==
            IF existing # None /\ Val(existing).ResourceRecords # None
            THEN Val(Val(existing).ResourceRecords) ELSE <<>>
        ttl == IF existing # None /\ Val(existing).TTL # None
               THEN Val(existing).TTL ELSE Some(caa_record.ttl)
    IN  RecordSet(normalized_name, "CAA", ttl,
                  Some(MergeValues(existing_values, required_values(caa_record), 1)),
                  None, None)

\* The return statement an invocation of create_caa_record left by, added to
\* its outcome: the zone was not found, its name is not set, the listing
\* raised, the merge gave no values ("No CAA values to set on apex after merge;
\* aborting"), or the change was submitted.
LeftAt(exit, out) == [exit |-> exit] @@ out

create_caa_record(id, name, listing, rr, caa_record, zfail, rfail, resp) ==
    LET ens == ensure_hosted_zone_id(id, name, listing, caa_record.name, zfail)
        apex_name == Val(ens.name)
        normalized_name == normalize_record_name(apex_name)
        all == rr[Val(ens.ret)]
        found == FindRecordSet(all, rfail,
                     {k \in 1..Len(all) :
                         all[k].Name = normalized_name /\ all[k].Type = "CAA"})
        merged == MergedRecordSet(caa_record, normalized_name, found.value)
    IN  IF ~Truthy(ens.ret) THEN LeftAt("zone", NoZone(ens))
        ELSE IF ~Truthy(ens.name)
        THEN LeftAt("name",
                 Outcome(ens, FALSE, None, None, FALSE, FALSE, FALSE, <<>>))
        ELSE IF found.raised
        THEN LeftAt("listing",
                 Outcome(ens, TRUE, None, None, TRUE, FALSE, FALSE, <<>>))
        ELSE IF Val(merged.ResourceRecords) = <<>>
        THEN LeftAt("merge",
                 Outcome(ens, TRUE, None, None, FALSE, FALSE, FALSE, <<>>))
        ELSE LeftAt("submit",
                 Submitted(ens, TRUE, Change(Val(ens.ret), "UPSERT", merged), resp))

------------------------------------------------------------------------------
(* get_dns_records *)

\* The values of the RecordType enum (base.py).
RecordTypes == {"A", "AAAA", "CNAME", "TXT", "CAA", "MX"}

\* s.strip(ch)
RECURSIVE LStrip(_, _)
LStrip(s, ch) ==
    IF Len(s) > 0 /\ CharAt(s, 1) = ch
    THEN LStrip(SubSeq(s, 2, Len(s)), ch)
    ELSE s

Strip(s, ch) == LStrip(RStrip(s, ch), ch)

\* s.split(sep, maxsplit)
RECURSIVE SplitMax(_, _, _)
SplitMax(s, sep, maxsplit) ==
    LET hits == {i \in 1..Len(s) : CharAt(s, i) = sep}
    IN  IF hits = {} \/ maxsplit = 0 THEN <<s>>
        ELSE LET i == CHOOSE k \in hits : \A j \in hits : k <= j
             IN  <<SubSeq(s, 1, i - 1)>>
                 \o SplitMax(SubSeq(s, i + 1, Len(s)), sep, maxsplit - 1)

\* The keys of a CAA value that the listing decodes: ["flags tag value"].
CaaParts(rs) == SplitMax(Val(rs.ResourceRecords)[1], " ", 2)

\* Decoding this record set raises: the first value of an empty list, int() of
\* flags that are no number, RecordType() of an unknown type.
DecodeRaises(rs) ==
    \/ rs.ResourceRecords # None /\ Val(rs.ResourceRecords) = <<>>
    \/ /\ rs.Type = "CAA"
       /\ rs.ResourceRecords # None
       /\ Len(CaaParts(rs)) >= 3
       /\ ~IsDigit(CaaParts(rs)[1])
    \/ rs.Type \notin RecordTypes

\* "Parse record content"
DecodeContent(rs) ==
    IF rs.ResourceRecords = None THEN ""
    ELSE IF rs.Type = "CAA"
    THEN IF Len(CaaParts(rs)) >= 3 THEN Val(rs.ResourceRecords)[1] ELSE ""
    ELSE IF rs.Type = "TXT"
    THEN Strip(Val(rs.ResourceRecords)[1], "\"")
    ELSE Val(rs.ResourceRecords)[1]

\* data: the routing keys, and for a CAA value of three parts its decomposition
DecodeData(rs) ==
    LET caa == /\ rs.Type = "CAA"
               /\ rs.ResourceRecords # None
               /\ Len(CaaParts(rs)) >= 3
    IN  [weight |-> rs.Weight, set_identifier |-> rs.SetIdentifier,
         flags |-> IF caa THEN Some(StrToInt(CaaParts(rs)[1])) ELSE None,
         tag |-> IF caa THEN Some(CaaParts(rs)[2]) ELSE None,
         value |-> IF caa THEN Some(Strip(CaaParts(rs)[3], "\"")) ELSE None]

\* "Standard: name:type / Weighted: name:type:set_identifier"
RecordId(rs) ==
    IF rs.SetIdentifier # None
    THEN rs.Name \o ":" \o rs.Type \o ":" \o Val(rs.SetIdentifier)
    ELSE rs.Name \o ":" \o rs.Type

\* The DNSRecord appended for a record set that passed the filters.
DecodeRecordSet(rs, name) ==
    [id |-> RecordId(rs), name |-> name, type |-> rs.Type,
     content |-> DecodeContent(rs),
     ttl |-> IF rs.TTL # None THEN Val(rs.TTL) ELSE 60,
     proxied |-> FALSE, priority |-> None, data |-> DecodeData(rs)]

\* "Filter by name", "Filter by type if specified"
GetFilter(rs, normalized_name, record_type) ==
    /\ rs.Name = normalized_name
    /\ record_type # None => rs.Type = Val(record_type)

get_dns_records(id, name, listing, rr, name_arg, record_type, zfail, rfail) ==
    LET ens == ensure_hosted_zone_id(id, name, listing, name_arg, zfail)
        normalized_name == normalize_record_name(name_arg)
        all == rr[Val(ens.ret)]
        Keep(rs) == GetFilter(rs, normalized_name, record_type)
        kept == SelectSeq(all, Keep)
        raises == \/ rfail >= 1 /\ rfail <= NumPages(Len(all))
                  \/ \E k \in 1..Len(kept) : DecodeRaises(kept[k])
        records == [k \in 1..Len(kept) |-> DecodeRecordSet(kept[k], name_arg)]
    IN  IF ~Truthy(ens.ret) THEN NoZone(ens)
        ELSE IF raises
        THEN Outcome(ens, TRUE, None, None,
                     rfail >= 1 /\ rfail <= NumPages(Len(all)), FALSE, FALSE, <<>>)
        ELSE Outcome(ens, TRUE, None, None, FALSE, FALSE, records # <<>>, records)

------------------------------------------------------------------------------
(* setup_certbot_credentials *)

\* domain = os.getenv("DOMAIN"): the zone is pre-fetched when it is set. The
\* outer except of the method turns a raise into False.
setup_certbot_credentials(id, name, listing, domain, zfail) ==
    LET ens == ensure_hosted_zone_id(id, name, listing, Val(domain), zfail)
        skip == [ret |-> None, id |-> id, name |-> name, listed |-> FALSE,
                 zone_info |-> None, raised |-> FALSE, failed |-> FALSE]
    IN  IF ~Truthy(domain)
        THEN Outcome(skip, FALSE, None, None, FALSE, FALSE, TRUE, <<>>)
        ELSE Outcome([ens EXCEPT !.raised = FALSE], FALSE, None, None, FALSE,
                     FALSE, ~ens.raised, <<>>)

------------------------------------------------------------------------------
(* The inputs of the model *)

ZoneA == [Id |-> "/hostedzone/Z1", Name |-> "example.com."]
ZoneB == [Id |-> "/hostedzone/Z2", Name |-> "sub.example.com."]
ZoneC == [Id |-> "/hostedzone/Z3", Name |-> "com."]

ZoneUniverse == {ZoneA, ZoneB, ZoneC}

\* Every listing, in every order, of some of the zones.
ZoneListings ==
    {z \in UNION {[1..n -> ZoneUniverse] : n \in 0..Cardinality(ZoneUniverse)} :
        \A i, j \in 1..Len(z) : i # j => z[i] # z[j]}

ZoneIdOf(zone) == Last(Split(zone.Id, "/"))

ZoneIds(listing) == {ZoneIdOf(listing[i]) : i \in 1..Len(listing)}

\* The domains the zones are resolved for.
Domains == {"example.com", "a.sub.example.com", "badexample.com", "other.org"}

\* The domains records are read and written for.
RecordDomains == {"example.com", "a.sub.example.com", "other.org"}

\* A CAA set somebody else left at the apex of a zone: a value of another
\* issuer, and one of the required values.
ForeignCaa(zone) ==
    RecordSet(zone.Name, "CAA", Some(3600),
              Some(<<"0 issue \"ca.example.net\"", CaaValue(0, "issue", "amazon.com")>>),
              None, None)

\* The record sets of a zone when the provider is constructed.
InitialRecordSets(zone) == {<<>>, <<ForeignCaa(zone)>>}

\* os.getenv("ROUTE53_INITIAL_WEIGHT") at the time of a call
EnvWeights == {None, Some("10"), Some("auto")}

\* int(time.time()) at the time of a call
Times == {1700000000}

\* data of a record: no routing keys, or an explicit weight and set identifier
RecordData == {<<None, None>>, <<Some(5), Some("blue")>>}

CreateRecords ==
    {DNSRecordIn(n, t, IF t = "TXT" THEN "abc123" ELSE "10.0.0.1", 60, d[1], d[2]) :
        n \in {"example.com", "other.org"}, t \in {"A", "TXT"}, d \in RecordData}

DeleteIds ==
    {"example.com.:A", "example.com.:A:blue", "example.com.:A:",
     "example.com.:TXT", "example.com.:CAA", "example.com.:A:auto-1700000000",
     "example.com.", "example.com.:A:blue:x"}

CaaRecords ==
    {[name |-> n, flags |-> f, tag |-> "issue", ttl |-> 300] :
        n \in RecordDomains, f \in {0, 128}}

GetTypes == {None, Some("A"), Some("TXT"), Some("CAA")}

\* data of a record, every way round: a weight without a set identifier, a set
\* identifier without a weight, the weight 0, an empty set identifier, a set
\* identifier with a colon in it.
RoutingData ==
    RecordData \cup {<<Some(5), None>>, <<None, Some("blue")>>, <<Some(0), Some("blue")>>,
                     <<Some(5), Some("")>>, <<Some(5), Some("b:1")>>}

\* type and content of a record: an address, a TXT token, a TXT content that
\* holds double quotes itself.
RecordContents == {<<"A", "10.0.0.1">>, <<"TXT", "abc123">>, <<"TXT", "\"q\"">>}

RoutedRecords ==
    {DNSRecordIn("example.com", c[1], c[2], 60, d[1], d[2]) :
        c \in RecordContents, d \in RoutingData}

\* The characters of the names _normalize_record_name is applied to.
NameChars == {"a", "."}

\* Every string of at most n of these characters.
RECURSIVE StringsUpTo(_)
StringsUpTo(n) ==
    IF n = 0 THEN {""}
    ELSE LET shorter == StringsUpTo(n - 1)
         IN  shorter \cup {s \o c : s \in shorter, c \in NameChars}

NameStrings == StringsUpTo(MaxNameLen)

------------------------------------------------------------------------------
(* The state machine *)

Invocation(op, domain, input, out) ==
    [op |-> op, domain |-> domain, input |-> input] @@ out

\* Between invocations: nothing was called, nothing returned.
Idle ==
    Invocation("idle", None, [none |-> TRUE],
        [zones_listed |-> FALSE, zones_failed |-> FALSE, zone_info |-> None,
         zone_id |-> None,
         rr_listed |-> FALSE, change |-> None, resp |-> None,
         failed |-> FALSE, escaped |-> FALSE, result |-> TRUE,
         records |-> <<>>])

\* The threads that call create_caa_record side by side.
Threads == {1, 2}

\* An invocation of create_caa_record not begun: pc is the statement it is at,
\* the other fields are its local variables and the value it returned.
NoCall ==
    [pc |-> "start", caa_record |-> None, hosted_zone_id |-> None,
     normalized_name |-> None, existing_rrset |-> None, merged |-> None,
     result |-> None]

NoCalls == [t \in Threads |-> NoCall]

\* The invocation returned `result`.
Returned(call, result) == [call EXCEPT !.pc = "done", !.result = Some(result)]

\* The provider as constructed, on a backend with the zones of `listings`.
InitOn(listings) ==
    /\ zones \in listings
    /\ rrsets \in {rr \in [ZoneIds(zones) ->
                              UNION {InitialRecordSets(z) : z \in ZoneUniverse}] :
            \A i \in 1..Len(zones) :
                rr[ZoneIdOf(zones[i])] \in InitialRecordSets(zones[i])}
    /\ Size(rrsets) <= MaxRecordSets
    /\ hosted_zone_id = None
    /\ hosted_zone_name = None
    /\ last = Idle
    /\ calls = NoCalls

\* _ensure_hosted_zone_id on the cache as it is.
Cache(domain, zfail) ==
    ensure_hosted_zone_id(hosted_zone_id, hosted_zone_name, zones, domain, zfail)

\* The page of the hosted-zone listing whose fetch raises (0: none); the
\* zones are listed only when the cache does not cover the domain.
ZoneFails(domain) ==
    IF CacheCovers(hosted_zone_id, hosted_zone_name, domain) THEN {0}
    ELSE 0..NumPages(Len(zones))

\* The page of the record-set listing whose fetch raises (0: none).
RecordFails(domain, zfail) ==
    LET ens == Cache(domain, zfail)
    IN  IF Truthy(ens.ret) THEN 0..NumPages(Len(rrsets[Val(ens.ret)])) ELSE {0}

AnyResponse == CHOOSE r \in Responses : r.raised

\* The answers the backend can give to the change a writer submits; `out` is
\* the invocation up to the submission.
Answers(out) ==
    IF out.change = None THEN {AnyResponse}
    ELSE {r \in Responses : WithinLimit(rrsets, Val(out.change), r)}

\* A writer's effect on the backend: the change submitted, if any, is taken or
\* not as the backend answered.
Backend(out) ==
    IF out.change = None THEN rrsets
    ELSE Submit(rrsets, Val(out.change), Val(out.resp))

SetupCertbotCredentials ==
    /\ last = Idle
    /\ \E domain \in {None} \cup {Some(d) : d \in Domains} :
       \E zfail \in IF Truthy(domain) THEN ZoneFails(Val(domain)) ELSE {0} :
        LET out == setup_certbot_credentials(hosted_zone_id, hosted_zone_name,
                                             zones, domain, zfail)
        IN  /\ last' = Invocation("setup", domain, [none |-> TRUE], out)
            /\ hosted_zone_id' =
                   IF Truthy(domain) THEN Cache(Val(domain), zfail).id
                   ELSE hosted_zone_id
            /\ hosted_zone_name' =
                   IF Truthy(domain) THEN Cache(Val(domain), zfail).name
                   ELSE hosted_zone_name
            /\ UNCHANGED <<zones, rrsets, calls>>

GetDnsRecords ==
    /\ last = Idle
    /\ \E name \in RecordDomains, record_type \in GetTypes :
       \E zfail \in ZoneFails(name) :
       \E rfail \in RecordFails(name, zfail) :
        LET out == get_dns_records(hosted_zone_id, hosted_zone_name, zones,
                                   rrsets, name, record_type, zfail, rfail)
        IN  /\ last' = Invocation("get", Some(name),
                                  [record_type |-> record_type], out)
            /\ hosted_zone_id' = Cache(name, zfail).id
            /\ hosted_zone_name' = Cache(name, zfail).name
            /\ UNCHANGED <<zones, rrsets, calls>>

\* create_dns_record on a record of `records`, under an environment of `envs`.
CreateDnsRecordOn(records, envs) ==
    /\ last = Idle
    /\ \E record \in records, env \in envs, now \in Times :
       \E zfail \in ZoneFails(record.name) :
       \E resp \in Answers(create_dns_record(hosted_zone_id, hosted_zone_name,
                       zones, record, env, now, zfail, AnyResponse)) :
        LET out == create_dns_record(hosted_zone_id, hosted_zone_name, zones,
                                     record, env, now, zfail, resp)
        IN  /\ last' = Invocation("create", Some(record.name),
                                  [record |-> record, env |-> env, now |-> now],
                                  out)
            /\ hosted_zone_id' = Cache(record.name, zfail).id
            /\ hosted_zone_name' = Cache(record.name, zfail).name
            /\ rrsets' = Backend(out)
            /\ UNCHANGED <<zones, calls>>

CreateDnsRecord == CreateDnsRecordOn(CreateRecords, EnvWeights)

DeleteDnsRecord ==
    /\ last = Idle
    /\ \E record_id \in DeleteIds, domain \in RecordDomains :
       \E zfail \in ZoneFails(domain) :
       \E rfail \in RecordFails(domain, zfail) :
       \E resp \in Answers(delete_dns_record(hosted_zone_id, hosted_zone_name,
                       zones, rrsets, record_id, domain, zfail, rfail,
                       AnyResponse)) :
        LET out == delete_dns_record(hosted_zone_id, hosted_zone_name, zones,
                                     rrsets, record_id, domain, zfail, rfail, resp)
        IN  /\ last' = Invocation("delete", Some(domain),
                                  [record_id |-> record_id], out)
            /\ hosted_zone_id' = Cache(domain, zfail).id
            /\ hosted_zone_name' = Cache(domain, zfail).name
            /\ rrsets' = Backend(out)
            /\ UNCHANGED <<zones, calls>>

CreateCaaRecord ==
    /\ last = Idle
    /\ \E caa_record \in CaaRecords :
       \E zfail \in ZoneFails(caa_record.name) :
       \E rfail \in RecordFails(caa_record.name, zfail) :
       \E resp \in Answers(create_caa_record(hosted_zone_id, hosted_zone_name,
                       zones, rrsets, caa_record, zfail, rfail, AnyResponse)) :
        LET out == create_caa_record(hosted_zone_id, hosted_zone_name, zones,
                                     rrsets, caa_record, zfail, rfail, resp)
        IN  /\ last' = Invocation("caa", Some(caa_record.name),
                                  [caa_record |-> caa_record], out)
            /\ hosted_zone_id' = Cache(caa_record.name, zfail).id
            /\ hosted_zone_name' = Cache(caa_record.name, zfail).name
            /\ rrsets' = Backend(out)
            /\ UNCHANGED <<zones, calls>>

\* The method returned; the caller goes on to its next call.
Return ==
    /\ last # Idle
    /\ last' = Idle
    /\ UNCHANGED <<zones, rrsets, hosted_zone_id, hosted_zone_name, calls>>

\* The backend of the main specification: example.com and its subzone
\* sub.example.com.
SpecListings == {<<ZoneA, ZoneB>>}

Init == InitOn(SpecListings)

Next ==
    \/ SetupCertbotCredentials
    \/ GetDnsRecords
    \/ CreateDnsRecord
    \/ DeleteDnsRecord
    \/ CreateCaaRecord
    \/ Return

Spec == Init /\ [][Next]_vars

\* Zone resolution alone, on every listing of the zones.
InitZones == InitOn(ZoneListings)

NextZones ==
    \/ SetupCertbotCredentials
    \/ Return

SpecZones == InitZones /\ [][NextZones]_vars

\* create_dns_record on records of every routing data and content.
CreateRoutedRecord == CreateDnsRecordOn(RoutedRecords, EnvWeights)

\* Records written and read back: the codec of the record sets.
NextRecords ==
    \/ CreateRoutedRecord
    \/ GetDnsRecords
    \/ Return

SpecRecords == Init /\ [][NextRecords]_vars

\* create_caa_record, statement by statement, on thread t.
\* "Ensure we know which hosted zone this belongs to", apex_name
CaaResolveZone(t) ==
    /\ calls[t].pc = "start"
    /\ \E caa_record \in CaaRecords :
       \E zfail \in ZoneFails(caa_record.name) :
        LET ens == Cache(caa_record.name, zfail)
            call == [calls[t] EXCEPT !.caa_record = Some(caa_record)]
        IN  /\ hosted_zone_id' = ens.id
            /\ hosted_zone_name' = ens.name
            /\ calls' = [calls EXCEPT ![t] =
                   IF ~Truthy(ens.ret) \/ ~Truthy(ens.name)
                   THEN Returned(call, FALSE)
                   ELSE [call EXCEPT
                            !.pc = "list",
                            !.hosted_zone_id = ens.ret,
                            !.normalized_name =
                                Some(normalize_record_name(Val(ens.name)))]]
    /\ UNCHANGED <<zones, rrsets, last>>

\* "Look up any existing CAA RRSet on the apex", then the merge
CaaListRecordSets(t) ==
    /\ calls[t].pc = "list"
    /\ LET call == calls[t]
           all == rrsets[Val(call.hosted_zone_id)]
       IN  \E rfail \in 0..NumPages(Len(all)) :
            LET found == FindRecordSet(all, rfail,
                             {k \in 1..Len(all) :
                                 /\ all[k].Name = Val(call.normalized_name)
                                 /\ all[k].Type = "CAA"})
                merged == MergedRecordSet(Val(call.caa_record),
                                          Val(call.normalized_name), found.value)
            IN  calls' = [calls EXCEPT ![t] =
                    IF found.raised THEN Returned(call, FALSE)
                    ELSE IF Val(merged.ResourceRecords) = <<>>
                    THEN Returned([call EXCEPT !.existing_rrset = found.value],
                                  FALSE)
                    ELSE [call EXCEPT !.pc = "submit",
                                      !.existing_rrset = found.value,
                                      !.merged = Some(merged)]]
    /\ UNCHANGED <<zones, rrsets, hosted_zone_id, hosted_zone_name, last>>

\* change_resource_record_sets and the test of its status
CaaSubmitChange(t) ==
    /\ calls[t].pc = "submit"
    /\ LET call == calls[t]
           change == Change(Val(call.hosted_zone_id), "UPSERT", Val(call.merged))
       IN  \E resp \in {r \in Responses : WithinLimit(rrsets, change, r)} :
            /\ rrsets' = Submit(rrsets, change, resp)
            /\ calls' = [calls EXCEPT ![t] =
                             Returned(call, SubmitResult(resp).result)]
    /\ UNCHANGED <<zones, hosted_zone_id, hosted_zone_name, last>>

\* Two invocations of create_caa_record on one provider, their backend calls
\* in any order.
NextCaaRace ==
    \E t \in Threads :
        \/ CaaResolveZone(t)
        \/ CaaListRecordSets(t)
        \/ CaaSubmitChange(t)

SpecCaaRace == Init /\ [][NextCaaRace]_vars

\* _normalize_record_name(name), on its own.
NormalizeRecordName ==
    /\ last = Idle
    /\ \E name \in NameStrings :
        last' = [op |-> "normalize", domain |-> None, input |-> [name |-> name],
                 value |-> normalize_record_name(name)]
    /\ UNCHANGED <<zones, rrsets, hosted_zone_id, hosted_zone_name, calls>>

NextNames ==
    \/ NormalizeRecordName
    \/ Return

SpecNames == Init /\ [][NextNames]_vars

------------------------------------------------------------------------------
(* Zone ownership, as the specification words it *)

ZoneNameOf(zone) == RStrip(zone.Name, ".")

\* The zone is the domain's own zone, or the zone of a parent domain.
Owns(zone, domain) ==
    \/ domain = ZoneNameOf(zone)
    \/ EndsWith(domain, "." \o ZoneNameOf(zone))

Owners(domain) == {zones[i] : i \in 1..Len(zones)} \cap {z \in ZoneUniverse : Owns(z, domain)}

\* The most specific owner: the zone named as the domain, else the owner of
\* the longest name. None when no zone owns the domain.
MostSpecificOwner(domain) ==
    IF Owners(domain) = {} THEN None
    ELSE Some(CHOOSE z \in Owners(domain) :
                 \A y \in Owners(domain) : Len(ZoneNameOf(y)) <= Len(ZoneNameOf(z)))

Writers == {"create", "delete", "caa"}
RecordOps == {"get"} \cup Writers

------------------------------------------------------------------------------
(* C1 *)

\* C1 (zone not found): whenever no hosted zone owns the domain of an
\* operation on records, or the listing of the hosted zones fails, the zone
\* resolution returns no zone and the operation fails without listing record
\* sets or submitting a change, whatever was resolved before.
C1_ZoneNotFoundAborts ==
    (/\ last.op \in RecordOps
     /\ Owners(Val(last.domain)) = {} \/ last.zones_failed)
        => /\ last.zone_id = None
           /\ ~last.rr_listed
           /\ last.change = None
           /\ last.result = FALSE

------------------------------------------------------------------------------
(* C2 *)

\* C2 (longest-suffix zone match): a fresh resolution whose listing did not
\* fail returns the zone named as the domain if there is one, otherwise the
\* zone with the longest name among those the domain is a subdomain of, and no
\* zone when there is none; in every listing order and pagination.
C2_LongestSuffixMatch ==
    (/\ last.op = "setup"
     /\ last.zones_listed
     /\ ~last.zones_failed)
        => LET owner == MostSpecificOwner(Val(last.domain))
           IN  last.zone_info =
                   IF owner = None THEN None
                   ELSE Some(<<ZoneIdOf(Val(owner)), ZoneNameOf(Val(owner))>>)

\* The spec's example: com, example.com and sub.example.com are listed, the
\* shortest name last; a.sub.example.com resolves to sub.example.com.
C2_Witness ==
    /\ last.op = "setup"
    /\ last.zones_listed
    /\ zones = <<ZoneB, ZoneA, ZoneC>>
    /\ last.domain = Some("a.sub.example.com")
    /\ last.zone_info = Some(<<"Z2", "sub.example.com">>)

------------------------------------------------------------------------------
(* C3 *)

\* The id names a set identifier: it has a third field, and that is not empty.
CarriesSetIdentifier(parsed) == Truthy(parsed.set_identifier)

\* The record set is the one the id names.
NamedBy(record_set, parsed) ==
    /\ record_set.Name = parsed.name
    /\ record_set.Type = parsed.type
    /\ CarriesSetIdentifier(parsed)
           => record_set.SetIdentifier = parsed.set_identifier

\* C3 (delete safety): delete_dns_record with a well-formed id, in a zone it
\* resolved, where no record set listed has the id's name and type (and set
\* identifier, when the id names one; an empty third field names none),
\* returns failure, submits no change request and leaves the backend's record
\* sets as they were.
C3_DeleteSafety ==
    [][(/\ last'.op = "delete"
        /\ ParseRecordId(last'.input.record_id) # None
        /\ Truthy(last'.zone_id)
        /\ LET listing == rrsets[Val(last'.zone_id)]
               parsed == Val(ParseRecordId(last'.input.record_id))
           IN  \A k \in 1..Len(listing) : ~NamedBy(listing[k], parsed))
          => /\ last'.result = FALSE
             /\ last'.change = None
             /\ rrsets' = rrsets]_vars

\* A delete of example.com.:A:blue that listed a zone holding an A record set
\* of example.com. under another identity, and failed.
C3_Witness ==
    /\ last.op = "delete"
    /\ last.input.record_id = "example.com.:A:blue"
    /\ last.rr_listed
    /\ ~last.failed
    /\ last.change = None
    /\ last.result = FALSE
    /\ \E k \in 1..Len(rrsets[Val(last.zone_id)]) :
           LET rs == rrsets[Val(last.zone_id)][k]
           IN  rs.Name = "example.com." /\ rs.Type = "A"

------------------------------------------------------------------------------
(* C4 *)

\* C4 (record identity on delete): the record set of every DELETE submitted
\* has exactly the identity (Name, Type, SetIdentifier or none) parsed from the
\* record id; an id of two fields never deletes a record set that carries a
\* SetIdentifier.
C4_DeleteIdentity ==
    (/\ last.op = "delete"
     /\ last.change # None)
        => LET parsed == Val(ParseRecordId(last.input.record_id))
           IN  Identity(Val(last.change).ResourceRecordSet)
                   = <<parsed.name, parsed.type, parsed.set_identifier>>

------------------------------------------------------------------------------
(* C5 *)

\* C5 (weighted injection exclusion): the UPSERT of a TXT record whose data
\* holds no weight carries neither Weight nor SetIdentifier, whatever
\* ROUTE53_INITIAL_WEIGHT is.
C5_TxtNotWeighted ==
    (/\ last.op = "create"
     /\ last.input.record.type = "TXT"
     /\ last.input.record.data.weight = None
     /\ last.change # None)
        => /\ Val(last.change).ResourceRecordSet.Weight = None
           /\ Val(last.change).ResourceRecordSet.SetIdentifier = None

\* A TXT record without weight was upserted while the default weight was 10.
C5_Witness ==
    /\ last.op = "create"
    /\ last.input.record.type = "TXT"
    /\ last.input.record.data.weight = None
    /\ last.input.env = Some("10")
    /\ last.change # None
    /\ Val(last.change).ResourceRecordSet.ResourceRecords = Some(<<"\"abc123\"">>)
    /\ last.result = TRUE

------------------------------------------------------------------------------
(* C6 *)

\* The values of the CAA record set at the apex `name` of zone `zone_id`.
ApexCaaValues(rr, zone_id, name) ==
    LET i == FirstIndex({k \in 1..Len(rr[zone_id]) :
                            rr[zone_id][k].Name = name /\ rr[zone_id][k].Type = "CAA"})
    IN  IF i = 0 THEN None ELSE rr[zone_id][i].ResourceRecords

\* create_caa_record once more with the CAARecord of the call that just
\* returned.
CaaAgain(zfail, rfail, resp) ==
    create_caa_record(hosted_zone_id, hosted_zone_name, zones, rrsets,
                      last.input.caa_record, zfail, rfail, resp)

\* The second call submits a change for the apex the first call wrote.
SameApex(again) ==
    /\ again.change # None
    /\ Val(again.change).HostedZoneId = Val(last.change).HostedZoneId
    /\ Val(again.change).ResourceRecordSet.Name
           = Val(last.change).ResourceRecordSet.Name

\* C6 (CAA merge idempotence): once create_caa_record succeeded and the
\* backend holds its upsert, the same call again, against the same apex,
\* submits the values the apex holds, in their order: the apex CAA values after
\* the second call are those after the first.
C6_CaaMergeIdempotent ==
    (/\ last.op = "caa"
     /\ last.result = TRUE)
        => LET first == Val(last.change)
               held == ApexCaaValues(rrsets, first.HostedZoneId,
                                     first.ResourceRecordSet.Name)
           IN  /\ held = first.ResourceRecordSet.ResourceRecords
               /\ \A zfail \in 0..NumPages(Len(zones)) :
                  \A rfail \in 0..NumPages(MaxRecordSets) :
                  \A resp \in Responses :
                    LET again == CaaAgain(zfail, rfail, resp)
                    IN  SameApex(again)
                          => /\ Val(again.change).ResourceRecordSet.ResourceRecords
                                    = held
                             /\ ApexCaaValues(
                                    Submit(rrsets, Val(again.change), resp),
                                    first.HostedZoneId,
                                    first.ResourceRecordSet.Name) = held

\* A successful merge into an apex set that held values of its own (the
\* foreign issuer is kept, the set holds six values), after which the same
\* call again, no backend call failing, writes that apex again.
C6_Witness ==
    /\ last.op = "caa"
    /\ last.result = TRUE
    /\ LET values == Val(ApexCaaValues(rrsets, Val(last.change).HostedZoneId,
                             Val(last.change).ResourceRecordSet.Name))
       IN  /\ Len(values) = 6
           /\ values[1] = "0 issue \"ca.example.net\""
    /\ LET again == CaaAgain(0, 0, [raised |-> FALSE, status |-> Some("INSYNC")])
       IN  SameApex(again) /\ again.result = TRUE

------------------------------------------------------------------------------
(* C7 *)

\* The required values of a CAA request, written out.
ExpectedRequired(caa_record) ==
    LET head == IF caa_record.flags = 0 THEN "0 " ELSE "128 "
    IN  <<head \o caa_record.tag \o " \"letsencrypt.org\"",
          head \o caa_record.tag \o " \"amazon.com\"",
          head \o caa_record.tag \o " \"amazontrust.com\"",
          head \o caa_record.tag \o " \"awstrust.com\"",
          head \o caa_record.tag \o " \"amazonaws.com\"">>

\* C7 (non-destructive CAA merge): the UPSERT of create_caa_record lists all
\* values of the apex CAA set as the zone listed it, in their order, then each
\* required value that set lacks, in allow-list order; its TTL is that of the
\* existing set, or the caller's when the apex has no CAA set.
C7_CaaMergeKeepsExisting ==
    [][(/\ last'.op = "caa"
        /\ last'.change # None)
          => LET change == Val(last'.change)
                 upsert == change.ResourceRecordSet
                 listing == rrsets[change.HostedZoneId]
                 i == FirstIndex({k \in 1..Len(listing) :
                          listing[k].Name = upsert.Name /\ listing[k].Type = "CAA"})
                 existing == IF i = 0 THEN <<>> ELSE Val(listing[i].ResourceRecords)
                 Missing(v) == ~InSeq(v, existing)
                 values == Val(upsert.ResourceRecords)
             IN  /\ change.Action = "UPSERT"
                 /\ values = existing
                        \o SelectSeq(ExpectedRequired(last'.input.caa_record), Missing)
                 /\ upsert.TTL = IF i = 0 THEN Some(last'.input.caa_record.ttl)
                                 ELSE listing[i].TTL]_vars

\* A merge with flags 128 into the apex set somebody else left: its two values
\* come first, five new ones follow, and its TTL of 3600 stays.
C7_Witness ==
    /\ last.op = "caa"
    /\ last.change # None
    /\ last.input.caa_record.flags = 128
    /\ LET upsert == Val(last.change).ResourceRecordSet
       IN  /\ Len(Val(upsert.ResourceRecords)) = 7
           /\ Val(upsert.ResourceRecords)[1] = "0 issue \"ca.example.net\""
           /\ Val(upsert.ResourceRecords)[3] = "128 issue \"letsencrypt.org\""
           /\ upsert.TTL = Some(3600)

------------------------------------------------------------------------------
(* C8 *)

\* C8 (CAA apex only): every change create_caa_record submits is an UPSERT of
\* type CAA, in a hosted zone that owns caa_record.name (the name itself or a
\* parent domain of it) and named as that zone with the trailing dot, after
\* any earlier operations; never a CAA set in another zone.
C8_CaaApexOfOwner ==
    (/\ last.op = "caa"
     /\ last.change # None)
        => LET change == Val(last.change)
           IN  /\ change.Action = "UPSERT"
               /\ change.ResourceRecordSet.Type = "CAA"
               /\ \E owner \in Owners(last.input.caa_record.name) :
                      /\ change.HostedZoneId = ZoneIdOf(owner)
                      /\ change.ResourceRecordSet.Name = ZoneNameOf(owner) \o "."

------------------------------------------------------------------------------
(* C9 *)

\* C9 (success criterion): a writer returns true exactly when it submitted a
\* change request, the call did not raise, and the status returned is PENDING
\* or INSYNC.
C9_SuccessCriterion ==
    last.op \in Writers
        => (last.result = TRUE
              <=> /\ last.change # None
                  /\ ~Val(last.resp).raised
                  /\ Val(last.resp).status \in {Some("PENDING"), Some("INSYNC")})

\* A delete whose change request the backend answered with another status.
C9_Witness ==
    /\ last.op = "delete"
    /\ last.change # None
    /\ Val(last.resp).status = Some("FAILED")
    /\ last.result = FALSE

------------------------------------------------------------------------------
(* C10 *)

\* C10 (no backend exception escapes): no exception leaves get_dns_records or
\* a writer, and when a backend call raised the method returns failure (false,
\* or no records).
C10_NoExceptionEscapes ==
    last.op \in RecordOps
        => /\ ~last.escaped
           /\ last.failed => (last.result = FALSE /\ last.records = <<>>)

------------------------------------------------------------------------------
(* C11 *)

\* C11 (identifier round-trip): for every record get_dns_records returns, the
\* id it synthesized, split on ":" as delete_dns_record splits it, gives back
\* the record set's name, its type, and its set identifier (none for a record
\* set without one).
C11_IdRoundTrip ==
    last.op = "get"
        => \A k \in 1..Len(last.records) :
               LET record == last.records[k]
               IN  ParseRecordId(record.id) =
                       Some([name |-> normalize_record_name(record.name),
                             type |-> record.type,
                             set_identifier |-> record.data.set_identifier])

------------------------------------------------------------------------------
(* C12 *)

\* The number of fields of an id: one more than its colons.
FieldCount(record_id) ==
    Cardinality({i \in 1..Len(record_id) : CharAt(record_id, i) = ":"}) + 1

\* C12 (malformed id): delete_dns_record on an id of neither 2 nor 3 fields
\* returns false, lists no record sets and submits no change.
C12_MalformedIdFails ==
    (/\ last.op = "delete"
     /\ FieldCount(last.input.record_id) \notin {2, 3})
        => /\ last.result = FALSE
           /\ ~last.rr_listed
           /\ last.change = None

\* The zone is resolved, the id of four fields is refused; so is the id of one.
C12_Witness ==
    /\ last.op = "delete"
    /\ last.input.record_id = "example.com.:A:blue:x"
    /\ last.zone_id = Some("Z1")
    /\ last.result = FALSE
    /\ ~last.rr_listed

------------------------------------------------------------------------------
(* C13 *)

\* The cached zone is the domain's zone or the zone of a parent domain.
CachedFor(domain) ==
    /\ Truthy(hosted_zone_id)
    /\ Truthy(hosted_zone_name)
    /\ \/ domain = Val(hosted_zone_name)
       \/ EndsWith(domain, "." \o Val(hosted_zone_name))

\* C13 (cache reuse): once a zone is cached, every zone resolution for the
\* cached zone's name or a name ending in "." + that name returns the cached
\* id, lists no hosted zones, and leaves the cache as it is.
C13_CacheReuse ==
    [][(/\ last'.op \in RecordOps \cup {"setup"}
        /\ last'.domain # None
        /\ CachedFor(Val(last'.domain)))
           => /\ last'.zone_id = hosted_zone_id
              /\ ~last'.zones_listed
              /\ UNCHANGED <<hosted_zone_id, hosted_zone_name>>]_vars

\* A subdomain of the cached zone is served from the cache.
C13_Witness ==
    /\ last.op = "get"
    /\ last.domain = Some("a.sub.example.com")
    /\ hosted_zone_name = Some("example.com")
    /\ last.zone_id = Some("Z1")
    /\ ~last.zones_listed

------------------------------------------------------------------------------
(* C14 *)

\* C14 (idempotent normalization): normalizing a normalized name changes
\* nothing, and a normalized name ends with the dot.
C14_NormalizeIdempotent ==
    last.op = "normalize"
        => /\ normalize_record_name(last.value) = last.value
           /\ EndsWith(last.value, ".")

\* A name that had its dot, and a name that got it.
C14_Witness ==
    /\ last.op = "normalize"
    /\ last.input.name \in {"a.a.", "a.a"}
    /\ last.value = "a.a."

------------------------------------------------------------------------------
(* C15 *)

\* The weight the claim expects: the record's own, else for a record that is
\* not TXT the default of the environment when it is set and all digits.
ExpectedWeight(record, env) ==
    IF record.data.weight # None THEN record.data.weight
    ELSE IF record.type = "TXT" THEN None
    ELSE IF env = None THEN None
    ELSE IF IsDigit(Val(env)) THEN Some(StrToInt(Val(env)))
    ELSE None

\* The set identifier the claim expects once a weight was determined.
ExpectedSetIdentifier(record, env, now) ==
    IF ExpectedWeight(record, env) = None THEN None
    ELSE IF record.data.set_identifier # None THEN record.data.set_identifier
    ELSE Some("auto-" \o IntToStr(now))

\* C15 (weight selection order): create_dns_record determines the weight of
\* the record's data when there is one, whatever the environment holds; else,
\* for a record that is not TXT, the environment's default when it is set and
\* all digits; else none. With a weight, the set identifier is the one of the
\* record's data, else "auto-{unix seconds}"; an UPSERT that carries them
\* carries these.
C15_WeightSelectionOrder ==
    last.op = "create"
        => LET record == last.input.record
               env == last.input.env
               now == last.input.now
               weight == ExpectedWeight(record, env)
               sid == ExpectedSetIdentifier(record, env, now)
           IN  /\ WeightToSet(record, env) = weight
               /\ SetIdentifierFor(record, WeightToSet(record, env), now) = sid
               /\ (last.change # None /\ weight # None /\ Truthy(sid))
                      => /\ Val(last.change).ResourceRecordSet.Weight = weight
                         /\ Val(last.change).ResourceRecordSet.SetIdentifier = sid

\* The record's own weight was used although the environment held a default,
\* and the set identifier was generated.
C15_Witness ==
    /\ last.op = "create"
    /\ last.input.record.type = "A"
    /\ last.input.record.data = [weight |-> Some(5), set_identifier |-> None]
    /\ last.input.env = Some("10")
    /\ last.change # None
    /\ Val(last.change).ResourceRecordSet.Weight = Some(5)
    /\ Val(last.change).ResourceRecordSet.SetIdentifier = Some("auto-1700000000")

------------------------------------------------------------------------------
(* C16 *)

\* C16 (weight and set identifier together): every UPSERT of create_dns_record
\* carries a Weight exactly when it carries a SetIdentifier, and carries both
\* exactly when a weight was determined and a set identifier resolved (an
\* empty set identifier is none).
C16_WeightWithSetIdentifier ==
    (/\ last.op = "create"
     /\ last.change # None)
        => LET record_set == Val(last.change).ResourceRecordSet
               weight == ExpectedWeight(last.input.record, last.input.env)
               sid == ExpectedSetIdentifier(last.input.record, last.input.env,
                                            last.input.now)
           IN  /\ Val(last.change).Action = "UPSERT"
               /\ (record_set.Weight # None) <=> (record_set.SetIdentifier # None)
               /\ (record_set.Weight # None) <=> (weight # None /\ Truthy(sid))

\* A weight without a set identifier to go with it: neither is attached.
C16_Witness ==
    /\ last.op = "create"
    /\ last.input.record.data = [weight |-> Some(5), set_identifier |-> Some("")]
    /\ last.change # None
    /\ Val(last.change).ResourceRecordSet.Weight = None
    /\ Val(last.change).ResourceRecordSet.SetIdentifier = None
    /\ last.result = TRUE

------------------------------------------------------------------------------
(* C17 *)

\* The listing of the record sets raised (not the listing of the zones, nor the
\* submission).
RecordListingFailed ==
    /\ last.rr_listed
    /\ last.failed
    /\ ~last.zones_failed
    /\ last.resp = None \/ ~Val(last.resp).raised

\* C17 (no internal retries): an invocation goes from zone resolution to the
\* listing of record sets (delete, CAA merge) to one submission and returns
\* true or false; once a backend call failed it makes no further backend call.
\* get_dns_records submits nothing.
C17_FailureIsTerminal ==
    /\ last.op \in RecordOps
           => /\ last.result \in BOOLEAN
              /\ last.zones_failed => ~last.rr_listed /\ last.change = None
              /\ RecordListingFailed => last.change = None
              /\ last.change # None => last.zone_id # None
    /\ last.op \in {"delete", "caa"} /\ last.change # None => last.rr_listed
    /\ last.op = "get" => last.change = None

------------------------------------------------------------------------------
(* C19 *)

\* C19 (TXT wire round-trip): create_dns_record submits a TXT content in
\* double quotes as the single value, and once the upsert is applied,
\* get_dns_records of the same name and type TXT returns a record of that
\* content under the caller's name.
C19_TxtRoundTrip ==
    (/\ last.op = "create"
     /\ last.input.record.type = "TXT"
     /\ last.change # None)
        => LET record == last.input.record
               got == get_dns_records(hosted_zone_id, hosted_zone_name, zones,
                                      rrsets, record.name, Some("TXT"), 0, 0)
           IN  /\ Val(last.change).ResourceRecordSet.ResourceRecords
                      = Some(<<"\"" \o record.content \o "\"">>)
               /\ Applied(Val(last.resp))
                      => \E k \in 1..Len(got.records) :
                             /\ got.records[k].content = record.content
                             /\ got.records[k].name = record.name

------------------------------------------------------------------------------
(* C20 *)

\* The zone id a resolution from scratch gives for the domain.
FreshZoneId(domain) ==
    LET info == get_hosted_zone_info(zones, domain, 0).value
    IN  IF info = None THEN None ELSE Some(Val(info)[1])

\* C20 (cache transparency): for a domain some zone owns, the zone id
\* _ensure_hosted_zone_id returns is the one a resolution from scratch
\* returns, the id of the most specific owner, whatever was resolved before.
C20_CacheTransparent ==
    (/\ last.op \in RecordOps \cup {"setup"}
     /\ last.domain # None
     /\ ~last.zones_failed
     /\ Owners(Val(last.domain)) # {})
        => /\ last.zone_id = FreshZoneId(Val(last.domain))
           /\ last.zone_id = Some(ZoneIdOf(Val(MostSpecificOwner(Val(last.domain)))))

------------------------------------------------------------------------------
(* C18 *)

\* The values of the record set an invocation listed at the apex.
ListedValues(call) ==
    IF call.existing_rrset # None /\ Val(call.existing_rrset).ResourceRecords # None
    THEN Val(Val(call.existing_rrset).ResourceRecords)
    ELSE <<>>

\* Both invocations returned true, for the same apex.
BothSucceeded(t, u) ==
    /\ t # u
    /\ calls[t].pc = "done" /\ calls[t].result = Some(TRUE)
    /\ calls[u].pc = "done" /\ calls[u].result = Some(TRUE)
    /\ calls[t].hosted_zone_id = calls[u].hosted_zone_id
    /\ calls[t].normalized_name = calls[u].normalized_name

\* The values invocation t wrote that the apex CAA set no longer holds.
LostValues(t) ==
    LET call == calls[t]
        written == Val(Val(call.merged).ResourceRecords)
        held == ApexCaaValues(rrsets, Val(call.hosted_zone_id),
                              Val(call.normalized_name))
        now == IF held = None THEN <<>> ELSE Val(held)
    IN  {written[k] : k \in 1..Len(written)} \ {now[k] : k \in 1..Len(now)}

\* C18 (unguarded read-modify-write): when two create_caa_record invocations
\* for the same apex both returned true, a value one of them wrote is missing
\* from the apex CAA set only if the other listed the record sets before that
\* value was written: the list-then-write window, and nothing else, loses it.
C18_LostOnlyByStaleListing ==
    \A t, u \in Threads :
        BothSucceeded(t, u)
            => \A value \in LostValues(t) : ~InSeq(value, ListedValues(calls[u]))

\* The lost update: both listed before either wrote, both returned true, the
\* flags differ, and values one of them wrote are gone from the apex.
C18_Witness ==
    \E t, u \in Threads :
        /\ BothSucceeded(t, u)
        /\ Val(calls[t].caa_record).flags # Val(calls[u].caa_record).flags
        /\ calls[t].existing_rrset = None
        /\ calls[u].existing_rrset = None
        /\ LostValues(t) # {}

------------------------------------------------------------------------------
(* C21 *)

\* C21 (empty-merge abort unreachable): create_caa_record never leaves by the
\* abort for an empty merge; whenever it resolved a zone and listed the record
\* sets without error, it submits an UPSERT of type CAA that holds all five
\* required issuer values for the flags and tag asked for.
C21_EmptyMergeUnreachable ==
    last.op = "caa"
        => /\ last.exit # "merge"
           /\ (last.zone_id # None /\ last.rr_listed /\ last.exit # "listing")
                  => /\ last.exit = "submit"
                     /\ last.change # None
                     /\ Val(last.change).Action = "UPSERT"
                     /\ Val(last.change).ResourceRecordSet.Type = "CAA"
                     /\ LET values ==
                                Val(Val(last.change).ResourceRecordSet.ResourceRecords)
                            required == ExpectedRequired(last.input.caa_record)
                        IN  /\ Len(required) = 5
                            /\ \A k \in 1..Len(required) : InSeq(required[k], values)

\* An apex without CAA set: the merge is the five required values alone.
C21_Witness ==
    /\ last.op = "caa"
    /\ last.exit = "submit"
    /\ last.rr_listed
    /\ Val(last.change).ResourceRecordSet.ResourceRecords
           = Some(ExpectedRequired(last.input.caa_record))
    /\ rrsets[Val(last.zone_id)] = <<Val(last.change).ResourceRecordSet>>
    /\ last.result = TRUE

====
